---------------------------- MODULE Spec2Model ----------------------------
(***************************************************************************)
(* Model of sdk/order/client.go: the order client of the edgeX Go SDK.     *)
(*                                                                         *)
(* CreateOrder quantizes decimal order terms into settlement-layer         *)
(* integers, derives a nonce and an expiry bucket, hashes the commitment   *)
(* tuple, has it signed and posts the request; every operation parses a    *)
(* response envelope and classifies it by its status code.                 *)
(*                                                                         *)
(* Strings the code parses or formats are sequences of one-character       *)
(* strings.  Integers that may exceed the model checker's native range     *)
(* (math/big values and int64 amounts) are sign-magnitude records whose    *)
(* magnitude is a little-endian sequence of base-256 limbs.                *)
(***************************************************************************)
EXTENDS Integers, Sequences, FiniteSets, TLC

(***************************************************************************)
(* Arbitrary-precision integers (math/big.Int as used through              *)
(* shopspring/decimal).                                                    *)
(***************************************************************************)
LimbBase == 16 * 16

RECURSIVE MagNorm(_)
MagNorm(a) ==
    IF a = <<>> THEN <<>>
    ELSE IF a[Len(a)] = 0 THEN MagNorm(SubSeq(a, 1, Len(a) - 1))
    ELSE a

RECURSIVE MagFromNat(_)
MagFromNat(n) ==
    IF n = 0 THEN <<>>
    ELSE <<n % LimbBase>> \o MagFromNat(n \div LimbBase)

RECURSIVE MagAddC(_, _, _)
MagAddC(a, b, c) ==
    IF a = <<>> /\ b = <<>> THEN (IF c = 0 THEN <<>> ELSE <<c>>)
    ELSE LET x == IF a = <<>> THEN 0 ELSE Head(a)
             y == IF b = <<>> THEN 0 ELSE Head(b)
             s == x + y + c
             ra == IF a = <<>> THEN <<>> ELSE Tail(a)
             rb == IF b = <<>> THEN <<>> ELSE Tail(b)
         IN  <<s % LimbBase>> \o MagAddC(ra, rb, s \div LimbBase)

MagAdd(a, b) == MagNorm(MagAddC(a, b, 0))

\* a - b for magnitudes with a >= b
RECURSIVE MagSubB(_, _, _)
MagSubB(a, b, brw) ==
    IF a = <<>> THEN <<>>
    ELSE LET y == IF b = <<>> THEN 0 ELSE Head(b)
             d == Head(a) - y - brw
             rb == IF b = <<>> THEN <<>> ELSE Tail(b)
         IN  IF d < 0 THEN <<d + LimbBase>> \o MagSubB(Tail(a), rb, 1)
             ELSE <<d>> \o MagSubB(Tail(a), rb, 0)

MagSub(a, b) == MagNorm(MagSubB(a, b, 0))

\* -1, 0, 1 as a < b, a = b, a > b (normalized magnitudes)
RECURSIVE MagCmp(_, _)
MagCmp(a, b) ==
    IF Len(a) # Len(b) THEN (IF Len(a) < Len(b) THEN -1 ELSE 1)
    ELSE IF a = <<>> THEN 0
    ELSE LET n == Len(a)
         IN  IF a[n] # b[n] THEN (IF a[n] < b[n] THEN -1 ELSE 1)
             ELSE MagCmp(SubSeq(a, 1, n - 1), SubSeq(b, 1, n - 1))

RECURSIVE MagMulLimb(_, _, _)
MagMulLimb(a, d, c) ==
    IF a = <<>> THEN (IF c = 0 THEN <<>> ELSE <<c>>)
    ELSE LET p == Head(a) * d + c
         IN  <<p % LimbBase>> \o MagMulLimb(Tail(a), d, p \div LimbBase)

RECURSIVE MagMul(_, _)
MagMul(a, b) ==
    IF a = <<>> \/ b = <<>> THEN <<>>
    ELSE MagAdd(MagMulLimb(a, Head(b), 0),
                IF Tail(b) = <<>> THEN <<>> ELSE <<0>> \o MagMul(a, Tail(b)))

\* quotient and remainder of a magnitude by a small positive divisor
RECURSIVE MagDivRem(_, _)
MagDivRem(a, d) ==
    IF a = <<>> THEN [q |-> <<>>, r |-> 0]
    ELSE LET hi == MagDivRem(Tail(a), d)
             cur == hi.r * LimbBase + Head(a)
         IN  [q |-> <<cur \div d>> \o hi.q, r |-> cur % d]

\* quotient by 10^e, and whether the division left a remainder
RECURSIVE MagDivPow10(_, _)
MagDivPow10(a, e) ==
    IF e = 0 THEN [q |-> MagNorm(a), inexact |-> FALSE]
    ELSE LET one == MagDivRem(a, 10)
             rest == MagDivPow10(MagNorm(one.q), e - 1)
         IN  [q |-> rest.q, inexact |-> rest.inexact \/ one.r # 0]

RECURSIVE MagMulPow10(_, _)
MagMulPow10(a, e) ==
    IF e = 0 THEN MagNorm(a)
    ELSE MagMulPow10(MagNorm(MagMulLimb(a, 10, 0)), e - 1)

BigInt(neg, mag) == [neg |-> neg /\ mag # <<>>, mag |-> mag]
BigZero == BigInt(FALSE, <<>>)
BigFromInt(n) == IF n < 0 THEN BigInt(TRUE, MagFromNat(-n)) ELSE BigInt(FALSE, MagFromNat(n))
BigNeg(x) == BigInt(~x.neg, x.mag)
BigMul(x, y) == BigInt(x.neg # y.neg, MagMul(x.mag, y.mag))
BigAdd(x, y) ==
    IF x.neg = y.neg THEN BigInt(x.neg, MagAdd(x.mag, y.mag))
    ELSE IF MagCmp(x.mag, y.mag) >= 0 THEN BigInt(x.neg, MagSub(x.mag, y.mag))
    ELSE BigInt(y.neg, MagSub(y.mag, x.mag))
BigCmp(x, y) ==
    IF x.neg # y.neg THEN (IF x.neg THEN -1 ELSE 1)
    ELSE IF x.neg THEN MagCmp(y.mag, x.mag) ELSE MagCmp(x.mag, y.mag)
BigLeq(x, y) == BigCmp(x, y) <= 0


(***************************************************************************)
(* big.Int.Int64: the low 64 bits of the magnitude read as a two's         *)
(* complement int64, negated (with wrap-around) for a negative value.      *)
(***************************************************************************)
Int64Bytes == 8

RECURSIVE MagPow(_, _)
MagPow(limb, n) == IF n = 0 THEN <<limb>> ELSE <<0>> \o MagPow(limb, n - 1)

TwoPow63 == MagPow(LimbBase \div 2, Int64Bytes - 1)
TwoPow64 == MagPow(1, Int64Bytes)

Low64(mag) == MagNorm(SubSeq(mag, 1, IF Len(mag) < Int64Bytes THEN Len(mag) ELSE Int64Bytes))

Int64(x) ==
    LET low == Low64(x.mag)
        u == IF MagCmp(low, TwoPow63) < 0 THEN BigInt(FALSE, low)
             ELSE BigInt(TRUE, MagSub(TwoPow64, low))
    IN  IF ~x.neg THEN u
        ELSE IF u.neg /\ u.mag = TwoPow63 THEN u
        ELSE BigNeg(u)

FitsInt64(x) ==
    IF x.neg THEN MagCmp(x.mag, TwoPow63) <= 0 ELSE MagCmp(x.mag, TwoPow63) < 0

(***************************************************************************)
(* Character-level strings: strconv and decimal parsing and formatting.    *)
(***************************************************************************)
DigitChars == <<"0", "1", "2", "3", "4", "5", "6", "7", "8", "9">>
HexChars == DigitChars \o <<"a", "b", "c", "d", "e", "f">>

IsDigit(c) == \E i \in 1..Len(DigitChars) : DigitChars[i] = c
DigitVal(c) == (CHOOSE i \in 1..Len(DigitChars) : DigitChars[i] = c) - 1
IsHexDigit(c) == \E i \in 1..Len(HexChars) : HexChars[i] = c
HexVal(c) == (CHOOSE i \in 1..Len(HexChars) : HexChars[i] = c) - 1

\* the magnitude written by a string of digits in the given radix, most significant first
RECURSIVE MagFromDigits(_, _, _)
MagFromDigits(ds, radix, acc) ==
    IF ds = <<>> THEN MagNorm(acc)
    ELSE MagFromDigits(Tail(ds), radix,
            MagAdd(MagMulLimb(acc, radix, 0),
                   MagFromNat(IF radix = 10 THEN DigitVal(Head(ds)) ELSE HexVal(Head(ds)))))

\* the decimal digits of a magnitude, most significant first ("0" for zero)
RECURSIVE MagDigits(_)
MagDigits(a) ==
    LET qr == MagDivRem(a, 10)
        q == MagNorm(qr.q)
    IN  IF q = <<>> THEN <<DigitChars[qr.r + 1]>>
        ELSE MagDigits(q) \o <<DigitChars[qr.r + 1]>>

BigString(x) == (IF x.neg THEN <<"-">> ELSE <<>>) \o MagDigits(x.mag)

\* strconv.FormatInt(n, 10)
FormatInt(n) == BigString(BigFromInt(n))

\* strconv.ParseInt(s, 10, 64) as decimal.NewFromString uses it: an optional
\* sign, then one or more digits
ParseInt(s) ==
    LET signed == s # <<>> /\ Head(s) \in {"+", "-"}
        body == IF signed THEN Tail(s) ELSE s
    IN  IF body = <<>> \/ \E i \in 1..Len(body) : ~IsDigit(body[i])
        THEN [ok |-> FALSE, value |-> BigZero]
        ELSE [ok |-> TRUE,
              value |-> BigInt(signed /\ Head(s) = "-", MagFromDigits(body, 10, <<>>))]

(***************************************************************************)
(* shopspring/decimal: a Decimal is value * 10^exp.                        *)
(***************************************************************************)
Decimal(value, exp) == [value |-> value, exp |-> exp]

\* decimal.NewFromString, for strings without an exponent part
NewFromString(s) ==
    LET dots == {i \in 1..Len(s) : s[i] = "."}
        bad == [ok |-> FALSE, d |-> Decimal(BigZero, 0)]
    IN  IF Cardinality(dots) > 1 THEN bad
        ELSE LET pIndex == IF dots = {} THEN 0 ELSE CHOOSE i \in dots : TRUE
                 intString == IF pIndex = 0 THEN s
                              ELSE SubSeq(s, 1, pIndex - 1) \o SubSeq(s, pIndex + 1, Len(s))
                 exp == IF pIndex = 0 THEN 0 ELSE -(Len(s) - pIndex)
                 parsed == ParseInt(intString)
             IN  IF parsed.ok THEN [ok |-> TRUE, d |-> Decimal(parsed.value, exp)] ELSE bad

NewFromBigInt(x, exp) == Decimal(x, exp)

\* Decimal.Mul
DecMul(a, b) == Decimal(BigMul(a.value, b.value), a.exp + b.exp)

\* Decimal.rescale(0): exact for exp >= 0, big.Int.Quo (toward zero) otherwise
Rescale0(d) ==
    IF d.exp >= 0 THEN BigInt(d.value.neg, MagMulPow10(d.value.mag, d.exp))
    ELSE BigInt(d.value.neg, MagDivPow10(d.value.mag, -d.exp).q)

\* Decimal.IntPart
IntPart(d) == Int64(Rescale0(d))

\* Decimal.BigInt
DecBigInt(d) == Rescale0(d)

\* Decimal.Ceil: big.Int.DivMod (Euclidean) by 10^-exp, plus one when a remainder is left
DecCeil(d) ==
    IF d.exp >= 0 THEN d
    ELSE LET qr == MagDivPow10(d.value.mag, -d.exp)
             floor == IF d.value.neg /\ qr.inexact
                      THEN BigInt(TRUE, MagAdd(qr.q, <<1>>))
                      ELSE BigInt(d.value.neg, qr.q)
         IN  Decimal(IF qr.inexact THEN BigAdd(floor, BigFromInt(1)) ELSE floor, 0)

RECURSIVE TrimTrailingZeros(_)
TrimTrailingZeros(s) ==
    IF s # <<>> /\ s[Len(s)] = "0" THEN TrimTrailingZeros(SubSeq(s, 1, Len(s) - 1)) ELSE s

RECURSIVE Zeros(_)
Zeros(n) == IF n <= 0 THEN <<>> ELSE <<"0">> \o Zeros(n - 1)

\* Decimal.String
DecString(d) ==
    IF d.exp >= 0 THEN BigString(Rescale0(d))
    ELSE LET str == MagDigits(d.value.mag)
             dExp == -d.exp
             intPart == IF Len(str) > dExp THEN SubSeq(str, 1, Len(str) - dExp) ELSE <<"0">>
             frac == IF Len(str) > dExp THEN SubSeq(str, Len(str) - dExp + 1, Len(str))
                     ELSE Zeros(dExp - Len(str)) \o str
             trimmed == TrimTrailingZeros(frac)
             number == IF trimmed = <<>> THEN intPart ELSE intPart \o <<".">> \o trimmed
         IN  IF d.value.neg THEN <<"-">> \o number ELSE number


(***************************************************************************)
(* Collaborators from sdk/internal, called by the order client.            *)
(***************************************************************************)
\* internal.HexToBigInteger: an optional "0x" prefix, then hexadecimal digits
HexToBigInteger(hex) ==
    LET body == IF Len(hex) >= 2 /\ hex[1] = "0" /\ hex[2] = "x"
                THEN SubSeq(hex, 3, Len(hex)) ELSE hex
    IN  IF body = <<>> \/ \E i \in 1..Len(body) : ~IsHexDigit(body[i])
        THEN [ok |-> FALSE, value |-> BigZero]
        ELSE [ok |-> TRUE, value |-> BigInt(FALSE, MagFromDigits(body, 16, <<>>))]

\* internal.GetRandomClientId draws a fresh identifier on every call
ClientIds == {"cid-a", "cid-b"}

\* internal.CalcNonce: a fixed function of the client order identifier
CalcNonce(clientOrderId) == IF clientOrderId = "cid-a" THEN 305419896 ELSE 19088743

\* internal.CalcLimitOrderHash: a fixed injective function of its ten arguments
CalcLimitOrderHash(args) == [hashOf |-> args]

\* internal.Client.Sign either returns a signature (R, S, V) or fails
SignOutcomes ==
    {[ok |-> TRUE, R |-> <<"1", "a">>, S |-> <<"2", "b">>, V |-> <<"1", "c">>],
     [ok |-> FALSE, R |-> <<>>, S |-> <<>>, V |-> <<>>]}

BaseURL == "https://host"

(***************************************************************************)
(* Responses: HttpRequest may fail, reading the body may fail, and the     *)
(* body is either not JSON or a JSON object whose "code" member is absent, *)
(* a string, or a value of another JSON type.                              *)
(***************************************************************************)
JMissing == [t |-> "missing", v |-> ""]
JString(v) == [t |-> "string", v |-> v]
JNumber == [t |-> "number", v |-> "0"]
JNull == [t |-> "null", v |-> ""]

Codes == {JMissing, JString("SUCCESS"), JString("INVALID_ORDER"), JNumber, JNull}

HttpOutcomes ==
    {[kind |-> k, code |-> JMissing, errorMsg |-> ""] :
        k \in {"transportError", "readError", "badJSON"}}
    \cup {[kind |-> "envelope", code |-> c, errorMsg |-> ""] : c \in Codes}
    \cup {[kind |-> "envelope", code |-> JString("INVALID_ORDER"), errorMsg |-> "rejected"]}

NoResponse == [kind |-> "none", code |-> JMissing, errorMsg |-> ""]

\* json.Unmarshal into a struct whose Code field is a string: a member of
\* another JSON type is an error, an absent or null member leaves ""
UnmarshalTyped(resp) ==
    IF resp.code.t \in {"missing", "null"} THEN [ok |-> TRUE, Code |-> "", ErrorMsg |-> resp.errorMsg]
    ELSE IF resp.code.t = "string" THEN [ok |-> TRUE, Code |-> resp.code.v, ErrorMsg |-> resp.errorMsg]
    ELSE [ok |-> FALSE, Code |-> "", ErrorMsg |-> ""]

NoError == "nil"
NoResult == [ok |-> FALSE, Code |-> "", ErrorMsg |-> ""]

\* a failed call: the error, no result, and what was called on the way
Failed(err, trace) == [err |-> err, errCode |-> "", result |-> NoResult, trace |-> trace]
Rejected(err, code, trace) == [err |-> err, errCode |-> code, result |-> NoResult, trace |-> trace]
Succeeded(result, trace) == [err |-> NoError, errCode |-> "", result |-> result, trace |-> trace]

\* the transport, read and unmarshal steps shared by the typed operations,
\* then the status check `result.Code != "SUCCESS"`
TypedResponse(resp, transportErr, trace) ==
    IF resp.kind = "transportError" THEN Failed(transportErr, trace)
    ELSE IF resp.kind = "readError" THEN Failed("failed to read response body", trace)
    ELSE IF resp.kind = "badJSON" \/ ~UnmarshalTyped(resp).ok
         THEN Failed("failed to unmarshal response", trace)
    ELSE LET result == UnmarshalTyped(resp)
         IN  IF result.Code # "SUCCESS"
             THEN Rejected("request failed with code", result.Code, trace)
             ELSE Succeeded(result, trace)

(***************************************************************************)
(* CreateOrder                                                             *)
(***************************************************************************)
MsPerHour == 60 * 60 * 1000
L2ExpireBufferMs == 9 * 24 * MsPerHour

\* Go's integer division truncates toward zero
GoDiv(a, b) == IF a >= 0 THEN a \div b ELSE -((-a) \div b)

\* the two defaults in each other's place
DefaultTimeInForce_Swapped(p) ==
    IF p.TimeInForce = ""
    THEN CASE p.Type = "MARKET" -> [p EXCEPT !.TimeInForce = "GOOD_TIL_CANCEL"]
           [] p.Type = "LIMIT" -> [p EXCEPT !.TimeInForce = "IMMEDIATE_OR_CANCEL"]
           [] OTHER -> p
    ELSE p

\* the default TimeInForce, written into *params
DefaultTimeInForce(p) ==
    IF p.TimeInForce = ""
    THEN CASE p.Type = "MARKET" -> [p EXCEPT !.TimeInForce = "IMMEDIATE_OR_CANCEL"]
           [] p.Type = "LIMIT" -> [p EXCEPT !.TimeInForce = "GOOD_TIL_CANCEL"]
           [] OTHER -> p
    ELSE p

\* the first of the matching indices of a list, as a pointer that may be nil
FirstIndex(hits) ==
    IF hits = {} THEN [found |-> FALSE, at |-> 0]
    ELSE [found |-> TRUE, at |-> CHOOSE i \in hits : \A j \in hits : i <= j]

\* a lookup that falls back to the first contract of the list
FindContract_FirstWhenMissing(md, contractId) ==
    IF ~md.isNil /\ ~md.ContractList.isNil /\ md.ContractList.items # <<>>
    THEN LET items == md.ContractList.items
             m == FirstIndex({i \in 1..Len(items) : items[i].ContractId = contractId})
         IN  IF m.found THEN m ELSE [found |-> TRUE, at |-> 1]
    ELSE [found |-> FALSE, at |-> 0]

FindContract(md, contractId) ==
    IF ~md.isNil /\ ~md.ContractList.isNil
    THEN LET items == md.ContractList.items
         IN  FirstIndex({i \in 1..Len(items) : items[i].ContractId = contractId})
    ELSE [found |-> FALSE, at |-> 0]

FindQuoteCoin(md, coinId) ==
    IF ~md.isNil /\ ~md.CoinList.isNil
    THEN LET items == md.CoinList.items
         IN  FirstIndex({i \in 1..Len(items) : items[i].CoinId = coinId})
    ELSE [found |-> FALSE, at |-> 0]

AmountSynthetic(size, syntheticFactor) == IntPart(DecMul(size, syntheticFactor))
ValueDm(price, size) == DecMul(price, size)
AmountCollateral(valueDm, shiftFactor) == IntPart(DecMul(valueDm, shiftFactor))

DefaultFeeRate == <<"0", ".", "0", "0", "1">>

\* a fee rate that falls back to the default when it does not parse
FeeRate_DefaultOnError(contract) ==
    IF NewFromString(contract.DefaultTakerFeeRate).ok
    THEN NewFromString(contract.DefaultTakerFeeRate)
    ELSE [ok |-> TRUE, d |-> NewFromString(DefaultFeeRate).d]

\* the contract's taker fee rate, or the default when the contract names none
FeeRate(contract) ==
    IF contract.DefaultTakerFeeRate # <<>>
    THEN NewFromString(contract.DefaultTakerFeeRate)
    ELSE [ok |-> TRUE, d |-> NewFromString(DefaultFeeRate).d]

LimitFee(size, price, feeRate) == DecCeil(DecMul(DecMul(size, price), feeRate))
MaxAmountFee(limitFee, shiftFactor) == DecMul(limitFee, shiftFactor)

L2ExpireTime(expireTime) == expireTime + L2ExpireBufferMs
\* the bucket taken with floor division
L2ExpireHour_Floor(l2ExpireTime) == l2ExpireTime \div MsPerHour

L2ExpireHour(l2ExpireTime) == GoDiv(l2ExpireTime, MsPerHour)

\* the two amounts in each other's place
HashArgs_AmountsSwapped(p, q, nonce, accountId, l2ExpireHour) ==
    <<q.contract.StarkExSyntheticAssetId,
      q.quoteCoin.StarkExAssetId,
      q.quoteCoin.StarkExAssetId,
      p.Side = "BUY",
      q.amountCollateral,
      q.amountSynthetic,
      Int64(DecBigInt(q.maxAmountFee)),
      nonce,
      accountId,
      l2ExpireHour>>

\* the arguments of internal.CalcLimitOrderHash, in the order of the call; q
\* holds the contract, the quote coin and the quantized amounts
HashArgs(p, q, nonce, accountId, l2ExpireHour) ==
    <<q.contract.StarkExSyntheticAssetId,
      q.quoteCoin.StarkExAssetId,
      q.quoteCoin.StarkExAssetId,
      p.Side = "BUY",
      q.amountSynthetic,
      q.amountCollateral,
      Int64(DecBigInt(q.maxAmountFee)),
      nonce,
      accountId,
      l2ExpireHour>>

SigString(signature) == signature.R \o signature.S \o signature.V

RequestBody(p, accountId, clientOrderId, nonce, sigStr, l2ExpireTime, valueDm, limitFee) ==
    [accountId |-> FormatInt(accountId),
     contractId |-> p.ContractId,
     price |-> p.Price,
     size |-> p.Size,
     type |-> p.Type,
     side |-> p.Side,
     timeInForce |-> p.TimeInForce,
     clientOrderId |-> clientOrderId,
     expireTime |-> FormatInt(p.ExpireTime),
     l2Nonce |-> FormatInt(nonce),
     l2Signature |-> sigStr,
     l2ExpireTime |-> FormatInt(l2ExpireTime),
     l2Value |-> DecString(valueDm),
     l2Size |-> p.Size,
     l2LimitFee |-> DecString(limitFee),
     reduceOnly |-> p.ReduceOnly]

HashEvent(args) == [ev |-> "hash", args |-> args]
SignEvent(msgHash) == [ev |-> "sign", msgHash |-> msgHash]
HttpEvent(url, method, body, query) ==
    [ev |-> "http", url |-> url, method |-> method, body |-> body, query |-> query]

NoBody == [none |-> TRUE]
NoQuery == [none |-> TRUE]

\* the status check of CreateOrder, which also reports the error message
CreateOrderResponse(resp, trace) ==
    IF resp.kind = "transportError" THEN Failed("failed to create order", trace)
    ELSE IF resp.kind = "readError" THEN Failed("failed to read response body", trace)
    ELSE IF resp.kind = "badJSON" \/ ~UnmarshalTyped(resp).ok
         THEN Failed("failed to unmarshal response", trace)
    ELSE LET result == UnmarshalTyped(resp)
         IN  IF result.Code # "SUCCESS"
             THEN IF result.ErrorMsg # ""
                  THEN Rejected("request failed", result.Code, trace)
                  ELSE Rejected("request failed with code", result.Code, trace)
             ELSE Succeeded(result, trace)

NoLocals == [set |-> FALSE]

\* CreateOrder up to the fee cap: the lookups, the resolution factors, the
\* decimals and the quantized amounts, or the error that ends the call
Quantize(p, md, price) ==
    LET contract == FindContract(md, p.ContractId)
        c == md.ContractList.items[contract.at]
        quoteCoin == FindQuoteCoin(md, c.QuoteCoinId)
        coin == md.CoinList.items[quoteCoin.at]
        synth == HexToBigInteger(c.StarkExResolution)
        shift == HexToBigInteger(coin.StarkExResolution)
        syntheticFactor == NewFromBigInt(synth.value, 0)
        shiftFactor == NewFromBigInt(shift.value, 0)
        size == NewFromString(p.Size)
        valueDm == ValueDm(price, size.d)
        feeRate == FeeRate(c)
        limitFee == LimitFee(size.d, price, feeRate.d)
        Stop(err) == [err |-> err]
    IN  IF ~contract.found THEN Stop("contract not found")
        ELSE IF ~quoteCoin.found THEN Stop("coin not found")
        ELSE IF ~synth.ok THEN Stop("failed to parse synthetic factor")
        ELSE IF ~shift.ok THEN Stop("failed to parse shift factor")
        ELSE IF ~size.ok THEN Stop("failed to parse size")
        ELSE IF ~feeRate.ok THEN Stop("failed to parse fee rate")
        ELSE [err |-> NoError, contract |-> c, quoteCoin |-> coin,
              syntheticFactor |-> syntheticFactor, shiftFactor |-> shiftFactor,
              size |-> size.d, valueDm |-> valueDm,
              amountSynthetic |-> AmountSynthetic(size.d, syntheticFactor),
              amountCollateral |-> AmountCollateral(valueDm, shiftFactor),
              feeRate |-> feeRate.d, limitFee |-> limitFee,
              maxAmountFee |-> MaxAmountFee(limitFee, shiftFactor)]

\* CreateOrder from the client order identifier to the message hash
Derive(p, q, accountId, clientOrderId) ==
    LET nonce == CalcNonce(clientOrderId)
        l2ExpireTime == L2ExpireTime(p.ExpireTime)
        l2ExpireHour == L2ExpireHour(l2ExpireTime)
        args == HashArgs(p, q, nonce, accountId, l2ExpireHour)
    IN  [set |-> TRUE, size |-> q.size, valueDm |-> q.valueDm,
         syntheticFactor |-> q.syntheticFactor, shiftFactor |-> q.shiftFactor,
         amountSynthetic |-> q.amountSynthetic, amountCollateral |-> q.amountCollateral,
         feeRate |-> q.feeRate, limitFee |-> q.limitFee, maxAmountFee |-> q.maxAmountFee,
         clientOrderId |-> clientOrderId, nonce |-> nonce,
         l2ExpireTime |-> l2ExpireTime, l2ExpireHour |-> l2ExpireHour,
         args |-> args, msgHash |-> CalcLimitOrderHash(args)]

\* the request posted whether or not the signer returned a signature
Calls_SendUnsigned(p, l, accountId, signed) ==
    <<HashEvent(l.args), SignEvent(l.msgHash),
      HttpEvent(<<BaseURL, "/api/v1/private/order/createOrder">>, "POST",
                RequestBody(p, accountId, l.clientOrderId, l.nonce, SigString(signed),
                            l.l2ExpireTime, l.valueDm, l.limitFee),
                NoQuery)>>

\* the calls CreateOrder makes: the hash and the signer, then, with a
\* signature, the transport
Calls(p, l, accountId, signed) ==
    LET hashed == <<HashEvent(l.args), SignEvent(l.msgHash)>>
        body == RequestBody(p, accountId, l.clientOrderId, l.nonce, SigString(signed),
                            l.l2ExpireTime, l.valueDm, l.limitFee)
    IN  IF ~signed.ok THEN hashed
        ELSE hashed \o <<HttpEvent(<<BaseURL, "/api/v1/private/order/createOrder">>,
                                   "POST", body, NoQuery)>>

\* CreateOrder's return value
Return(signed, resp, trace) ==
    IF ~signed.ok THEN Failed("failed to sign withdrawal hash", trace)
    ELSE CreateOrderResponse(resp, trace)

(***************************************************************************)
(* The other operations                                                    *)
(***************************************************************************)
\* strings.Join(list, ",")
RECURSIVE Join(_)
Join(list) ==
    IF list = <<>> THEN <<>>
    ELSE IF Len(list) = 1 THEN list
    ELSE <<Head(list), ",">> \o Join(Tail(list))

\* an entry of a query map: absent, or present with its value
Absent == [set |-> FALSE, v |-> <<>>]
Present(v) == [set |-> TRUE, v |-> v]

StringParam(str) == IF str # "" THEN Present(<<str>>) ELSE Absent
ListParam(list) == IF Len(list) > 0 THEN Present(Join(list)) ELSE Absent
BoolParam(ptr) == IF ~ptr.isNil THEN Present(<<IF ptr.v THEN "true" ELSE "false">>) ELSE Absent
UintParam(n) == IF n > 0 THEN Present(FormatInt(n)) ELSE Absent

\* the status check of CancelOrder, on a response unmarshalled into a map
CancelOrderResponse(resp, trace) ==
    IF resp.kind = "transportError" THEN Failed("failed to cancel order", trace)
    ELSE IF resp.kind = "readError" THEN Failed("failed to read response body", trace)
    ELSE IF resp.kind = "badJSON" THEN Failed("failed to unmarshal response", trace)
    ELSE IF resp.code.t = "string" /\ resp.code.v # "SUCCESS"
         THEN Rejected("request failed with code", resp.code.v, trace)
    ELSE Succeeded([ok |-> TRUE,
                    Code |-> IF resp.code.t = "string" THEN resp.code.v ELSE "",
                    ErrorMsg |-> resp.errorMsg], trace)

CancelOrderRun(p, accountId, resp) ==
    LET accountID == FormatInt(accountId)
        Post(url, key, id) ==
            CancelOrderResponse(resp,
                <<HttpEvent(url, "POST", [accountId |-> accountID, list |-> key, ids |-> <<id>>],
                            NoQuery)>>)
    IN  IF p.OrderId # ""
        THEN Post(<<BaseURL, "/api/v1/private/order/cancelOrderById">>, "orderIdList", p.OrderId)
        ELSE IF p.ClientId # ""
        THEN Post(<<BaseURL, "/api/v1/private/order/cancelOrderByClientOrderId">>,
                  "clientOrderIdList", p.ClientId)
        ELSE IF p.ContractId # ""
        THEN Post(<<"", "/api/v1/private/order/cancelAllOrder">>,
                  "filterContractIdList", p.ContractId)
        ELSE Failed("must provide either OrderId, ClientId, or ContractId", <<>>)

GetActiveOrdersRun(p, accountId, resp) ==
    LET query == [accountId |-> Present(FormatInt(accountId)),
                  size |-> StringParam(p.Size),
                  offsetData |-> StringParam(p.OffsetData),
                  filterCoinIdList |-> ListParam(p.FilterCoinIdList),
                  filterContractIdList |-> ListParam(p.FilterContractIdList),
                  filterTypeList |-> ListParam(p.FilterTypeList),
                  filterStatusList |-> ListParam(p.FilterStatusList),
                  filterIsLiquidate |-> BoolParam(p.FilterIsLiquidate),
                  filterIsDeleverage |-> BoolParam(p.FilterIsDeleverage),
                  filterIsPositionTpsl |-> BoolParam(p.FilterIsPositionTpsl),
                  filterStartCreatedTimeInclusive |-> UintParam(p.FilterStartCreatedTimeInclusive),
                  filterEndCreatedTimeExclusive |-> UintParam(p.FilterEndCreatedTimeExclusive)]
    IN  TypedResponse(resp, "failed to get active orders",
            <<HttpEvent(<<BaseURL, "/api/v1/private/order/getActiveOrderPage">>, "GET",
                        NoBody, query)>>)

GetOrderFillTransactionsRun(p, accountId, resp) ==
    LET query == [accountId |-> Present(FormatInt(accountId)),
                  size |-> StringParam(p.Size),
                  offsetData |-> StringParam(p.OffsetData),
                  filterCoinIdList |-> ListParam(p.FilterCoinIdList),
                  filterContractIdList |-> ListParam(p.FilterContractIdList),
                  filterOrderIdList |-> ListParam(p.FilterOrderIdList),
                  filterIsLiquidate |-> BoolParam(p.FilterIsLiquidate),
                  filterIsDeleverage |-> BoolParam(p.FilterIsDeleverage),
                  filterIsPositionTpsl |-> BoolParam(p.FilterIsPositionTpsl),
                  filterStartCreatedTimeInclusive |-> UintParam(p.FilterStartCreatedTimeInclusive),
                  filterEndCreatedTimeExclusive |-> UintParam(p.FilterEndCreatedTimeExclusive)]
    IN  TypedResponse(resp, "failed to get order fill transactions",
            <<HttpEvent(<<BaseURL, "/api/v1/private/order/getHistoryOrderFillTransactionPage">>,
                        "GET", NoBody, query)>>)

GetOrdersByIDRun(orderIDs, accountId, resp) ==
    IF Len(orderIDs) = 0 THEN Failed("order IDs must not be empty", <<>>)
    ELSE TypedResponse(resp, "failed to get orders by id",
            <<HttpEvent(<<BaseURL, "/api/v1/private/order/getOrderById">>, "GET", NoBody,
                        [accountId |-> Present(FormatInt(accountId)),
                         orderIdList |-> Present(Join(orderIDs))])>>)

GetOrdersByClientOrderIDRun(clientOrderIDs, accountId, resp) ==
    IF Len(clientOrderIDs) = 0 THEN Failed("client order IDs must not be empty", <<>>)
    ELSE TypedResponse(resp, "failed to get orders by client order id",
            <<HttpEvent(<<BaseURL, "/api/v1/private/order/getOrderByClientOrderId">>, "GET",
                        NoBody,
                        [accountId |-> Present(FormatInt(accountId)),
                         clientOrderIdList |-> Present(Join(clientOrderIDs))])>>)

GetMaxOrderSizeRun(p, accountId, resp) ==
    TypedResponse(resp, "failed to get max order size",
        <<HttpEvent(<<BaseURL, "/api/v1/private/order/getMaxCreateOrderSize">>, "POST",
                    [accountId |-> FormatInt(accountId), contractId |-> p.contractID,
                     price |-> DecString(p.price)],
                    NoQuery)>>)


(***************************************************************************)
(* Inputs.  A behaviour is one caller invoking one operation, possibly     *)
(* again with the same arguments; the initial state fixes the operation    *)
(* and its arguments.  CreateOrder's arguments vary one group at a time    *)
(* around a base order: the order fields, the metadata, the numeric terms, *)
(* and the expiration instant.                                             *)
(***************************************************************************)
MaxHour == 2

Hex10e6 == <<"0", "x", "f", "4", "2", "4", "0">>
Hex10e10 == <<"0", "x", "2", "5", "4", "0", "b", "e", "4", "0", "0">>
HexTen == <<"0", "x", "a">>
Hex2p63 == <<"0", "x", "8">> \o Zeros(15)
HexBad == <<"0", "x", "z", "1">>

SizeStrings ==
    {<<"1", ".", "9", "9", "9", "9", "9", "9", "9">>,
     <<"0", ".", "0", "0", "0", "0", "0", "1", "9">>,
     <<"2">>,
     <<"-", "1", ".", "9", "9">>,
     <<"0">>,
     <<"1", "2", "5", "0", "0", "0", "0", "0", "0", "0", ".", "5">>}
BadSizeStrings == {<<>>, <<"1", ".", "2", ".", "3">>, <<"1", "x">>, <<".">>}

PriceStrings == {<<"1", ".", "5">>, <<"a", "b", "c">>, <<>>}

Prices == {Decimal(BigFromInt(15), -1), Decimal(BigFromInt(3000025), -2)}

FeeRateStrings == {<<>>, <<"0", ".", "0", "0", "0", "3", "8">>, <<"0", ".", "5">>}
BadFeeRateStrings == {<<"f", "e", "e">>, <<"0", ".", "0", ".", "1">>}

Coin(id, assetId, resolution) ==
    [CoinId |-> id, StarkExAssetId |-> assetId, StarkExResolution |-> resolution]
Contract(id, quoteCoinId, assetId, resolution, feeRate) ==
    [ContractId |-> id, QuoteCoinId |-> quoteCoinId, StarkExSyntheticAssetId |-> assetId,
     StarkExResolution |-> resolution, DefaultTakerFeeRate |-> feeRate]
List(items) == [isNil |-> FALSE, items |-> items]
NilList == [isNil |-> TRUE, items |-> <<>>]
MetaData(contracts, coins) == [isNil |-> FALSE, ContractList |-> contracts, CoinList |-> coins]
NilMetaData == [isNil |-> TRUE, ContractList |-> NilList, CoinList |-> NilList]

Usdt(resolution) == Coin("1000", "0xusdt", resolution)
Btc(resolution, feeRate) == Contract("10000001", "1000", "0xbtc", resolution, feeRate)
Eth == Contract("10000002", "1000", "0xeth", Hex10e6, <<>>)
OtherCoin == Coin("1001", "0xusdc", HexTen)

Market(synthRes, collRes, feeRate) ==
    MetaData(List(<<Eth, Btc(synthRes, feeRate)>>), List(<<OtherCoin, Usdt(collRes)>>))

BaseFeeRate == <<"0", ".", "0", "0", "0", "3", "8">>
BaseMetaData == Market(Hex10e10, Hex10e6, BaseFeeRate)

MetaDatas ==
    {NilMetaData,
     MetaData(NilList, List(<<Usdt(Hex10e6)>>)),
     MetaData(List(<<>>), List(<<Usdt(Hex10e6)>>)),
     MetaData(List(<<Eth>>), List(<<Usdt(Hex10e6)>>)),
     MetaData(List(<<Btc(Hex10e10, BaseFeeRate)>>), NilList),
     MetaData(List(<<Btc(Hex10e10, BaseFeeRate)>>), List(<<OtherCoin>>)),
     MetaData(List(<<Btc(HexTen, <<>>), Btc(Hex10e10, BaseFeeRate)>>),
              List(<<Usdt(Hex10e6), Usdt(HexTen)>>)),
     Market(HexBad, Hex10e6, BaseFeeRate),
     Market(Hex10e10, HexBad, BaseFeeRate),
     Market(Hex10e10, <<>>, BaseFeeRate),
     BaseMetaData}
    \cup {Market(Hex10e10, Hex10e6, f) : f \in BadFeeRateStrings}

ExpireTimes ==
    {h * MsPerHour + o - L2ExpireBufferMs :
        h \in (-MaxHour)..MaxHour, o \in {-1, 0, 1, MsPerHour \div 2}}
    \cup {0, 1234567890}

OrderParams(contractId, price, size, type, side, tif, expireTime, reduceOnly) ==
    [ContractId |-> contractId, Price |-> price, Size |-> size, Type |-> type, Side |-> side,
     TimeInForce |-> tif, ExpireTime |-> expireTime, ReduceOnly |-> reduceOnly]

BaseParams ==
    OrderParams("10000001", <<"1", ".", "5">>, <<"1", ".", "9", "9", "9", "9", "9", "9", "9">>,
                "LIMIT", "BUY", "", 1234567890, FALSE)
BasePrice == Decimal(BigFromInt(15), -1)
Accounts == {0, 543210}
BaseAccount == CHOOSE a \in Accounts : a # 0

CreateOrderCall(p, md, price, account) ==
    [op |-> "CreateOrder", params |-> p, metadata |-> md, l2Price |-> price, account |-> account]

CreateOrderCalls ==
    \* the order fields
    {CreateOrderCall(OrderParams(c, pr, BaseParams.Size, ty, sd, tif, BaseParams.ExpireTime, ro),
                     BaseMetaData, BasePrice, acct) :
        c \in {"10000001", "10000009"}, pr \in PriceStrings,
        ty \in {"MARKET", "LIMIT", "STOP_LIMIT"}, sd \in {"BUY", "SELL"},
        tif \in {"", "POST_ONLY"}, ro \in {FALSE}, acct \in {BaseAccount}}
    \cup {CreateOrderCall(BaseParams, BaseMetaData, BasePrice, acct) : acct \in Accounts}
    \* the metadata
    \cup {CreateOrderCall([BaseParams EXCEPT !.ContractId = c, !.Size = sz], md, BasePrice,
                          BaseAccount) :
            c \in {"10000001", "10000009"}, sz \in {BaseParams.Size} \cup BadSizeStrings,
            md \in MetaDatas}
    \* the numeric terms
    \cup {CreateOrderCall([BaseParams EXCEPT !.Size = sz, !.ReduceOnly = TRUE],
                          Market(res[1], res[2], f), pr, BaseAccount) :
            sz \in SizeStrings, pr \in Prices, f \in FeeRateStrings,
            res \in {<<Hex10e10, Hex10e6>>, <<HexTen, HexTen>>, <<Hex2p63, Hex10e6>>,
                     <<Hex10e6, Hex2p63>>}}
    \* the expiration instant
    \cup {CreateOrderCall([BaseParams EXCEPT !.ExpireTime = t, !.Side = sd],
                          BaseMetaData, BasePrice, BaseAccount) :
            t \in ExpireTimes, sd \in {"SELL"}}

NilBool == [isNil |-> TRUE, v |-> FALSE]
BoolPtr(b) == [isNil |-> FALSE, v |-> b]

CancelOrderParams(orderId, clientId, contractId) ==
    [OrderId |-> orderId, ClientId |-> clientId, ContractId |-> contractId]

PageParams ==
    {[Size |-> "", OffsetData |-> "", FilterCoinIdList |-> <<>>, FilterContractIdList |-> <<>>,
      FilterTypeList |-> <<>>, FilterStatusList |-> <<>>, FilterOrderIdList |-> <<>>,
      FilterIsLiquidate |-> NilBool, FilterIsDeleverage |-> NilBool,
      FilterIsPositionTpsl |-> NilBool, FilterStartCreatedTimeInclusive |-> 0,
      FilterEndCreatedTimeExclusive |-> 0],
     [Size |-> "10", OffsetData |-> "o1", FilterCoinIdList |-> <<"1000">>,
      FilterContractIdList |-> <<"10000001", "10000002">>, FilterTypeList |-> <<"LIMIT">>,
      FilterStatusList |-> <<"OPEN", "PENDING">>, FilterOrderIdList |-> <<"o-1", "o-2">>,
      FilterIsLiquidate |-> BoolPtr(FALSE), FilterIsDeleverage |-> BoolPtr(TRUE),
      FilterIsPositionTpsl |-> NilBool, FilterStartCreatedTimeInclusive |-> 1700000,
      FilterEndCreatedTimeExclusive |-> 0]}

OtherCalls ==
    {[op |-> "CancelOrder", params |-> CancelOrderParams(o, c, k), metadata |-> NilMetaData,
      l2Price |-> BasePrice, account |-> BaseAccount] :
        o \in {"", "o-1"}, c \in {"", "cid-a"}, k \in {"", "10000001"}}
    \cup {[op |-> o, params |-> p, metadata |-> NilMetaData, l2Price |-> BasePrice,
           account |-> BaseAccount] :
            o \in {"GetActiveOrders", "GetOrderFillTransactions"}, p \in PageParams}
    \cup {[op |-> o, params |-> [ids |-> ids], metadata |-> NilMetaData, l2Price |-> BasePrice,
           account |-> BaseAccount] :
            o \in {"GetOrdersByID", "GetOrdersByClientOrderID"},
            ids \in {<<>>, <<"o-1">>, <<"o-1", "o-2">>}}
    \cup {[op |-> "GetMaxOrderSize", params |-> [contractID |-> c, price |-> pr],
           metadata |-> NilMetaData, l2Price |-> BasePrice, account |-> BaseAccount] :
            c \in {"10000001"}, pr \in Prices}

Invocations == CreateOrderCalls \cup OtherCalls

(***************************************************************************)
(* State                                                                   *)
(***************************************************************************)
VARIABLES
    op,           \* the operation the caller invokes
    params,       \* its parameters (CreateOrder writes the default TimeInForce into them)
    metadata,     \* CreateOrder's metadata argument
    l2Price,      \* CreateOrder's l2Price argument
    accountID,    \* what Client.GetAccountID returns
    returned,     \* whether a call has returned
    signIn,       \* what the signer answered in the last call
    httpIn,       \* what the transport answered in the last call
    out,          \* the last call's error, result and the collaborators it called
    locals,       \* CreateOrder's derived values in the last call that hashed
    commitments   \* the commitments CreateOrder has hashed for these arguments

vars == <<op, params, metadata, l2Price, accountID, returned, signIn, httpIn, out, locals,
          commitments>>

NoSign == [ok |-> FALSE, R |-> <<>>, S |-> <<>>, V |-> <<>>]

Init ==
    \E call \in Invocations :
        /\ op = call.op
        /\ params = call.params
        /\ metadata = call.metadata
        /\ l2Price = call.l2Price
        /\ accountID = call.account
        /\ returned = FALSE
        /\ signIn = NoSign
        /\ httpIn = NoResponse
        /\ out = Failed("pending", <<>>)
        /\ locals = NoLocals
        /\ commitments = {}

Commitment(l) ==
    [amountSynthetic |-> l.amountSynthetic, amountCollateral |-> l.amountCollateral,
     maxAmountFee |-> l.args[7], nonce |-> l.nonce, l2ExpireHour |-> l.l2ExpireHour,
     args |-> l.args, msgHash |-> l.msgHash]

Sent(trace) == \E i \in 1..Len(trace) : trace[i].ev = "http"

\* The caller invokes its operation, and invokes it again with the same
\* arguments after a failure of the signer or of the transport (the failures
\* a caller can retry).
RetryableErrors ==
    {"failed to sign withdrawal hash", "failed to create order", "failed to cancel order",
     "failed to get active orders", "failed to get order fill transactions",
     "failed to get orders by id", "failed to get orders by client order id",
     "failed to get max order size", "failed to read response body"}

CallerInvokes(name) == op = name /\ (~returned \/ out.err \in RetryableErrors)

\* the signer and the transport answer only when they are called
SignAnswers(called) == IF called THEN SignOutcomes ELSE {NoSign}
HttpAnswers(called) == IF called THEN HttpOutcomes ELSE {NoResponse}

CreateOrder ==
    /\ CallerInvokes("CreateOrder")
    /\ LET p == DefaultTimeInForce(params)
           q == Quantize(p, metadata, l2Price)
       IN  /\ params' = p
           /\ IF q.err # NoError
              THEN /\ out' = Failed(q.err, <<>>)
                   /\ signIn' = NoSign
                   /\ httpIn' = NoResponse
                   /\ UNCHANGED <<locals, commitments>>
              ELSE \E clientOrderId \in ClientIds :
                   LET l == Derive(p, q, accountID, clientOrderId)
                   IN  /\ locals' = l
                       /\ commitments' = commitments \cup {Commitment(l)}
                       /\ \E signed \in SignAnswers(TRUE) :
                          LET trace == Calls(p, l, accountID, signed)
                          IN  /\ signIn' = signed
                              /\ \E resp \in HttpAnswers(signed.ok) :
                                    /\ httpIn' = resp
                                    /\ out' = Return(signed, resp, trace)
    /\ returned' = TRUE
    /\ UNCHANGED <<op, metadata, l2Price, accountID>>

\* whether an operation reaches the transport with these arguments
Requests(o) == Sent(o.trace)

CancelOrder ==
    /\ CallerInvokes("CancelOrder")
    /\ \E resp \in HttpAnswers(Requests(CancelOrderRun(params, accountID, NoResponse))) :
        /\ httpIn' = resp
        /\ out' = CancelOrderRun(params, accountID, resp)
    /\ returned' = TRUE
    /\ UNCHANGED <<op, params, metadata, l2Price, accountID, signIn, locals, commitments>>

GetActiveOrders ==
    /\ CallerInvokes("GetActiveOrders")
    /\ \E resp \in HttpAnswers(TRUE) :
        /\ httpIn' = resp
        /\ out' = GetActiveOrdersRun(params, accountID, resp)
    /\ returned' = TRUE
    /\ UNCHANGED <<op, params, metadata, l2Price, accountID, signIn, locals, commitments>>

GetOrderFillTransactions ==
    /\ CallerInvokes("GetOrderFillTransactions")
    /\ \E resp \in HttpAnswers(TRUE) :
        /\ httpIn' = resp
        /\ out' = GetOrderFillTransactionsRun(params, accountID, resp)
    /\ returned' = TRUE
    /\ UNCHANGED <<op, params, metadata, l2Price, accountID, signIn, locals, commitments>>

GetOrdersByID ==
    /\ CallerInvokes("GetOrdersByID")
    /\ \E resp \in HttpAnswers(Requests(GetOrdersByIDRun(params.ids, accountID, NoResponse))) :
        /\ httpIn' = resp
        /\ out' = GetOrdersByIDRun(params.ids, accountID, resp)
    /\ returned' = TRUE
    /\ UNCHANGED <<op, params, metadata, l2Price, accountID, signIn, locals, commitments>>

GetOrdersByClientOrderID ==
    /\ CallerInvokes("GetOrdersByClientOrderID")
    /\ \E resp \in HttpAnswers(Requests(GetOrdersByClientOrderIDRun(params.ids, accountID,
                                                                    NoResponse))) :
        /\ httpIn' = resp
        /\ out' = GetOrdersByClientOrderIDRun(params.ids, accountID, resp)
    /\ returned' = TRUE
    /\ UNCHANGED <<op, params, metadata, l2Price, accountID, signIn, locals, commitments>>

GetMaxOrderSize ==
    /\ CallerInvokes("GetMaxOrderSize")
    /\ \E resp \in HttpAnswers(TRUE) :
        /\ httpIn' = resp
        /\ out' = GetMaxOrderSizeRun(params, accountID, resp)
    /\ returned' = TRUE
    /\ UNCHANGED <<op, params, metadata, l2Price, accountID, signIn, locals, commitments>>

Next ==
    \/ CreateOrder
    \/ CancelOrder
    \/ GetActiveOrders
    \/ GetOrderFillTransactions
    \/ GetOrdersByID
    \/ GetOrdersByClientOrderID
    \/ GetMaxOrderSize

Spec == Init /\ [][Next]_vars


(***************************************************************************)
(* Properties.  They read the last call's record: the collaborators it     *)
(* called (out.trace), its error, and CreateOrder's derived values.        *)
(***************************************************************************)
Events(kind) == {i \in 1..Len(out.trace) : out.trace[i].ev = kind}
Hashed == Events("hash") # {}
Signed == Events("sign") # {}
Posted == Events("http") # {}
CreateOrderReturned == op = "CreateOrder" /\ returned

TheHashArgs == out.trace[CHOOSE i \in Events("hash") : TRUE].args
TheBody == out.trace[CHOOSE i \in Events("http") : TRUE].body
BodyOf(trace) == trace[CHOOSE i \in 1..Len(trace) : trace[i].ev = "http"].body

\* the metadata entries the order names, looked up independently of the code
ContractListed ==
    /\ ~metadata.isNil
    /\ ~metadata.ContractList.isNil
    /\ \E i \in 1..Len(metadata.ContractList.items) :
          metadata.ContractList.items[i].ContractId = params.ContractId
TheContract ==
    LET items == metadata.ContractList.items
        first == CHOOSE i \in 1..Len(items) :
                    /\ items[i].ContractId = params.ContractId
                    /\ \A j \in 1..(i - 1) : items[j].ContractId # params.ContractId
    IN  items[first]
QuoteCoinListed ==
    /\ ContractListed
    /\ ~metadata.CoinList.isNil
    /\ \E i \in 1..Len(metadata.CoinList.items) :
          metadata.CoinList.items[i].CoinId = TheContract.QuoteCoinId
TheQuoteCoin ==
    LET items == metadata.CoinList.items
        first == CHOOSE i \in 1..Len(items) :
                    /\ items[i].CoinId = TheContract.QuoteCoinId
                    /\ \A j \in 1..(i - 1) : items[j].CoinId # TheContract.QuoteCoinId
    IN  items[first]
ResolutionsParse ==
    /\ QuoteCoinListed
    /\ HexToBigInteger(TheContract.StarkExResolution).ok
    /\ HexToBigInteger(TheQuoteCoin.StarkExResolution).ok
Unparseable(str) == ~NewFromString(str).ok

\* C1: two constructions of the commitment for the same order parameters,
\* metadata, price and account yield the same quantized amounts, nonce,
\* commitment tuple and message hash.
C1_Determinism == \A a, b \in commitments : a = b

\* the part of C1 that the code keeps: the quantized amounts, the fee cap and
\* the expiry bucket do not vary between constructions
C1_QuantizationDeterministic ==
    \A a, b \in commitments :
        /\ a.amountSynthetic = b.amountSynthetic
        /\ a.amountCollateral = b.amountCollateral
        /\ a.maxAmountFee = b.maxAmountFee
        /\ a.l2ExpireHour = b.l2ExpireHour

TheL2ExpireTime == params.ExpireTime + 9 * 24 * 60 * 60 * 1000
TowardZero(x, d) == IF x >= 0 THEN x \div d ELSE -((-x) \div d)

\* C2 as claimed: the request carries l2ExpireTime = T + 9 days in
\* milliseconds and the hash carries floor(l2ExpireTime / 3,600,000).
C2_ExpiryFloor ==
    (CreateOrderReturned /\ Posted) =>
        /\ ParseInt(TheBody.l2ExpireTime).value = BigFromInt(TheL2ExpireTime)
        /\ TheHashArgs[10] = TheL2ExpireTime \div 3600000

\* C2 as amended: the request carries l2ExpireTime = T + 9 days in
\* milliseconds and the hash carries l2ExpireTime / 3,600,000 truncated toward
\* zero, which is the floor whenever l2ExpireTime is not negative or is a
\* whole number of hours.
C2_ExpiryTruncated ==
    (CreateOrderReturned /\ Posted) =>
        /\ ParseInt(TheBody.l2ExpireTime).value = BigFromInt(TheL2ExpireTime)
        /\ TheHashArgs[10] = TowardZero(TheL2ExpireTime, 3600000)
        /\ (TheL2ExpireTime >= 0 \/ TheL2ExpireTime % 3600000 = 0) =>
                TheHashArgs[10] = TheL2ExpireTime \div 3600000

C2_Witness ==
    /\ CreateOrderReturned
    /\ Posted
    /\ TheL2ExpireTime < 0
    /\ TheL2ExpireTime % 3600000 # 0
    /\ TheHashArgs[10] = 0

NonNegative(d) == ~d.value.neg
TrueFee == DecMul(DecMul(locals.size, l2Price), locals.feeRate)

\* cap / resolution >= value * 10^exp, for a positive resolution and exp <= 0
CapCovers(cap, resolution, fee) ==
    BigLeq(BigMul(fee.value, resolution), BigInt(cap.neg, MagMulPow10(cap.mag, -fee.exp)))

\* C3: for size, price and fee rate >= 0, the fee cap fed into the hash,
\* divided by the collateral resolution, is at least size x price x feeRate.
C3_FeeUpperBound ==
    (/\ CreateOrderReturned
     /\ Hashed
     /\ NonNegative(locals.size) /\ NonNegative(l2Price) /\ NonNegative(locals.feeRate)
     /\ locals.shiftFactor.value.mag # <<>>) =>
        CapCovers(TheHashArgs[7], locals.shiftFactor.value, TrueFee)

\* the part of C3 that the code keeps: the bound holds whenever the scaled fee
\* cap fits in an int64
C3_FeeUpperBoundInRange ==
    (/\ CreateOrderReturned
     /\ Hashed
     /\ NonNegative(locals.size) /\ NonNegative(l2Price) /\ NonNegative(locals.feeRate)
     /\ locals.shiftFactor.value.mag # <<>>
     /\ FitsInt64(DecBigInt(locals.maxAmountFee))) =>
        CapCovers(TheHashArgs[7], locals.shiftFactor.value, TrueFee)

\* t is d truncated toward zero: |t| <= |d| < |t| + 1, with d's sign
IsTruncationOf(t, d) ==
    LET k == -d.exp
    IN  /\ MagCmp(MagMulPow10(t.mag, k), d.value.mag) <= 0
        /\ MagCmp(d.value.mag, MagMulPow10(MagAdd(t.mag, <<1>>), k)) < 0
        /\ (t.mag = <<>> \/ t.neg = d.value.neg)

SyntheticExact == DecMul(locals.size, locals.syntheticFactor)
CollateralExact == DecMul(DecMul(l2Price, locals.size), locals.shiftFactor)

\* C4: the hashed synthetic amount is size x syntheticResolution truncated
\* toward zero and the hashed collateral amount is price x size x
\* collateralResolution truncated toward zero.
C4_Truncation ==
    (CreateOrderReturned /\ Hashed) =>
        /\ IsTruncationOf(TheHashArgs[5], SyntheticExact)
        /\ IsTruncationOf(TheHashArgs[6], CollateralExact)

\* the part of C4 that the code keeps: each amount is the truncation whenever
\* the truncated value fits in an int64
C4_TruncationInRange ==
    (CreateOrderReturned /\ Hashed) =>
        /\ FitsInt64(Rescale0(SyntheticExact)) => IsTruncationOf(TheHashArgs[5], SyntheticExact)
        /\ FitsInt64(Rescale0(CollateralExact)) => IsTruncationOf(TheHashArgs[6], CollateralExact)

\* C5: the hash is computed over (synthetic asset id, quote asset id, quote
\* asset id, side = BUY, synthetic amount, collateral amount, scaled fee cap,
\* nonce, account id, expiry bucket), in this order, and the request carries
\* the same nonce and account id.
C5_HashFieldOrder ==
    (CreateOrderReturned /\ Hashed) =>
        /\ TheHashArgs = <<TheContract.StarkExSyntheticAssetId,
                           TheQuoteCoin.StarkExAssetId,
                           TheQuoteCoin.StarkExAssetId,
                           params.Side = "BUY",
                           locals.amountSynthetic,
                           locals.amountCollateral,
                           Int64(DecBigInt(locals.maxAmountFee)),
                           locals.nonce,
                           accountID,
                           locals.l2ExpireHour>>
        /\ Posted =>
            /\ ParseInt(TheBody.l2Nonce).value = BigFromInt(TheHashArgs[8])
            /\ ParseInt(TheBody.accountId).value = BigFromInt(TheHashArgs[9])

C5_Witness ==
    /\ CreateOrderReturned
    /\ Posted
    /\ params.Side = "SELL"
    /\ TheHashArgs[5] # TheHashArgs[6]
    /\ TheBody.l2Nonce = FormatInt(TheHashArgs[8])

\* C6: when the contract is not in the metadata (nil metadata and empty
\* lists included), or its quote coin is not in the coin list, CreateOrder
\* fails with a not-found error and hashes, signs and sends nothing.
C6_UnknownContract ==
    CreateOrderReturned =>
        /\ ~ContractListed => out.err = "contract not found" /\ out.trace = <<>>
        /\ (ContractListed /\ ~QuoteCoinListed) =>
                out.err = "coin not found" /\ out.trace = <<>>

C6_Witness ==
    /\ CreateOrderReturned
    /\ ~metadata.isNil
    /\ ~metadata.ContractList.isNil
    /\ metadata.ContractList.items # <<>>
    /\ ~ContractListed
    /\ out.err = "contract not found"

InvalidDecimalErrors == {"failed to parse size", "failed to parse fee rate"}

\* C7 as claimed: CreateOrder fails with an invalid-decimal error, and hashes
\* and signs nothing, whenever the price string, the size string or the
\* contract's fee-rate string is not a parseable decimal.
C7_InvalidDecimal ==
    (/\ CreateOrderReturned
     /\ \/ Unparseable(params.Price)
        \/ Unparseable(params.Size)
        \/ (ContractListed /\ Unparseable(TheContract.DefaultTakerFeeRate))) =>
        /\ out.err \in InvalidDecimalErrors
        /\ ~Hashed
        /\ ~Signed

\* C7 as amended: once the contract, the quote coin and both resolution
\* factors are resolved, CreateOrder fails with an invalid-decimal error, and
\* hashes, signs and sends nothing, whenever the size string or the contract's
\* non-empty fee-rate string is not a parseable decimal; the price string is
\* not parsed and reaches the request as given.
C7_InvalidSizeOrFeeRate ==
    CreateOrderReturned =>
        /\ (ResolutionsParse /\ Unparseable(params.Size)) =>
                out.err = "failed to parse size" /\ out.trace = <<>>
        /\ (/\ ResolutionsParse
            /\ ~Unparseable(params.Size)
            /\ TheContract.DefaultTakerFeeRate # <<>>
            /\ Unparseable(TheContract.DefaultTakerFeeRate)) =>
                out.err = "failed to parse fee rate" /\ out.trace = <<>>
        /\ Posted => TheBody.price = params.Price

C7_Witness ==
    /\ CreateOrderReturned
    /\ ResolutionsParse
    /\ ~Unparseable(params.Size)
    /\ TheContract.DefaultTakerFeeRate # <<>>
    /\ Unparseable(TheContract.DefaultTakerFeeRate)
    /\ out.err = "failed to parse fee rate"

\* a response whose envelope the operation parsed
EnvelopeParsed ==
    /\ returned
    /\ httpIn.kind = "envelope"
    /\ op # "CancelOrder" => UnmarshalTyped(httpIn).ok

\* C8: every operation returns a result if and only if the parsed envelope's
\* status code is "SUCCESS"; any other status, a missing or non-string code
\* included, is a rejection that carries the code.
C8_ResponseClassification ==
    EnvelopeParsed =>
        IF httpIn.code = JString("SUCCESS")
        THEN out.err = NoError /\ out.result.ok
        ELSE /\ out.err \in {"request failed", "request failed with code"}
             /\ out.errCode = (IF httpIn.code.t = "string" THEN httpIn.code.v ELSE "")

\* the part of C8 that the code keeps: the operations that unmarshal into a
\* typed result classify alike
C8_TypedClassification ==
    (EnvelopeParsed /\ op # "CancelOrder") =>
        IF httpIn.code = JString("SUCCESS")
        THEN out.err = NoError /\ out.result.ok
        ELSE /\ out.err \in {"request failed", "request failed with code"}
             /\ out.errCode = (IF httpIn.code.t = "string" THEN httpIn.code.v ELSE "")

\* C9: with no time-in-force given, the request of a market order carries
\* IMMEDIATE_OR_CANCEL and that of a limit order GOOD_TIL_CANCEL; a given
\* time-in-force is carried unchanged, whatever the order type.
C9_DefaultTimeInForce ==
    [][(op = "CreateOrder" /\ Sent(out'.trace)) =>
        LET given == params.TimeInForce
            carried == BodyOf(out'.trace).timeInForce
        IN  /\ given # "" => carried = given
            /\ (given = "" /\ params.Type = "MARKET") => carried = "IMMEDIATE_OR_CANCEL"
            /\ (given = "" /\ params.Type = "LIMIT") => carried = "GOOD_TIL_CANCEL"]_vars

C9_Witness ==
    /\ CreateOrderReturned
    /\ Posted
    /\ params.Type = "MARKET"
    /\ TheBody.timeInForce = "IMMEDIATE_OR_CANCEL"

PreSignErrors ==
    {"contract not found", "coin not found", "failed to parse synthetic factor",
     "failed to parse shift factor", "failed to parse size", "failed to parse fee rate"}

InputsValid ==
    /\ ResolutionsParse
    /\ ~Unparseable(params.Size)
    /\ TheContract.DefaultTakerFeeRate # <<>> => ~Unparseable(TheContract.DefaultTakerFeeRate)

\* C10: in a call of CreateOrder the signer is called at most once, and only
\* after the lookups, the resolution factors and the decimals have all
\* succeeded; the transport is called at most once, and only after the signer
\* returned a signature; when an earlier step or the signer fails, CreateOrder
\* returns an error and the transport is not called.
C10_CommitSignSend ==
    CreateOrderReturned =>
        /\ Cardinality(Events("sign")) <= 1
        /\ Cardinality(Events("http")) <= 1
        /\ Signed => (InputsValid /\ Hashed /\ out.err \notin PreSignErrors)
        /\ Posted => /\ Signed
                     /\ signIn.ok
                     /\ \A i \in Events("sign"), j \in Events("http") : i < j
        /\ ~InputsValid => (out.err \in PreSignErrors /\ ~Signed)
        /\ (Signed /\ ~signIn.ok) => out.err = "failed to sign withdrawal hash"
        /\ out.err \in PreSignErrors \cup {"failed to sign withdrawal hash"} => ~Posted

C10_Witness ==
    /\ CreateOrderReturned
    /\ Signed
    /\ ~signIn.ok
    /\ ~Posted
    /\ out.err = "failed to sign withdrawal hash"

=============================================================================
